---- MODULE Spec2Model ----
(***************************************************************************)
(* A model of rusty-game-of-life (src/src/main.rs): the Board, its         *)
(* construction, the two passes of a tick (update_live_neighbor_counts and *)
(* step), and the run loop of main that calls draw once per frame.         *)
(*                                                                         *)
(* Vec<Cell> is a function over 0 .. len-1, so indices are the source's.   *)
(* Option<usize> is a record: None, or Some(v) with its value.             *)
(***************************************************************************)
EXTENDS Integers, FiniteSets, Sequences, TLC

\* src/src/main.rs:11
CYCLES_TO_DIE == 8

\* Bounds of the model.  The run loop is explored on every board of at most
\* MaxCells cells and sides of at most MaxSide (every seed set), and on the
\* larger boards of sides at most MaxSide seeded with one 2x2 block; draw is
\* called at most MaxGen times.  Board::new with the glider gun is explored
\* for every width in 0 .. MaxNewWidth and height in 0 .. MaxNewHeight.
MaxCells == 9
MaxSide == 4
MaxGen == 11
MaxNewWidth == 38
MaxNewHeight == 11
\* Boards that start with a Dying cell have at most MaxAnyCells cells.
MaxAnyCells == 4

VARIABLES
    pc,         \* position of main: "new", "panic", "draw", "count", "step",
                \* "render", "poll", "done"
    args,       \* the arguments of Board::new and the seed list it plants
    board,      \* the Board: generation, width, height, cells
    old,        \* history: the board when the current call of draw began
    pre,        \* history: the board just before the last pass ran
    completed,  \* history: the number of calls of draw that have returned
    canvas,     \* the points drawn since the last clear: <<x, y, state>>
    call,       \* the last call of a coordinate function, with its result
    history     \* history: the board as built, then after each tick's step

vars == <<pc, args, board, old, pre, completed, canvas, call, history>>

----------------------------------------------------------------------------
\* CellState, Cell

Alive == [tag |-> "Alive"]

Dying(cycles_left) == [tag |-> "Dying", cycles_left |-> cycles_left]

Dead == [tag |-> "Dead"]

Cell_dead == [state |-> Dead, neighbor_count |-> 0]

Cell_alive == [state |-> Alive, neighbor_count |-> 0]

None == [some |-> FALSE]

Some(v) == [some |-> TRUE, value |-> v]

VecLen(v) == Cardinality(DOMAIN v)

\* No coordinate function has been called.
NoCall == [fn |-> "none"]

\* No Board exists before Board::new has returned.
NoBoard == [generation |-> 0, width |-> 0, height |-> 0, cells |-> <<>>]

----------------------------------------------------------------------------
\* Coordinate mapping

index_to_coordinates(self, index) ==
    LET x == index % self.width
        y == index \div self.width
    IN  <<x, y>>

\* Variant: the upper bound on x is not checked.
coordinates_to_index_wraps(self, x, y) ==
    IF x < 0
    THEN None
    ELSE IF y < 0 \/ y >= self.height
         THEN None
         ELSE Some(y * self.width + x)

\* Variant: the upper bounds are compared with > instead of >=.
coordinates_to_index_inclusive(self, x, y) ==
    IF x < 0 \/ x > self.width
    THEN None
    ELSE IF y < 0 \/ y > self.height
         THEN None
         ELSE Some(y * self.width + x)

coordinates_to_index(self, x, y) ==
    IF x < 0 \/ x >= self.width
    THEN None
    ELSE IF y < 0 \/ y >= self.height
         THEN None
         ELSE Some(y * self.width + x)

----------------------------------------------------------------------------
\* Neighbor counting

\* A lookup self.cells[index]; an index outside the Vec panics in the source
\* and is no state of the model, so such a lookup reads as not Alive here.
IsAliveAt(self, index) ==
    index \in DOMAIN self.cells /\ self.cells[index].state = Alive

\* Variant: the scan takes in the cell's own position (x, y) as well.
live_neighbor_count_with_self(self, index) ==
    LET xy == index_to_coordinates(self, index)
        x == xy[1]
        y == xy[2]
        cell_indices == <<
            coordinates_to_index(self, x - 1, y - 1),
            coordinates_to_index(self, x, y - 1),
            coordinates_to_index(self, x + 1, y - 1),
            coordinates_to_index(self, x - 1, y),
            coordinates_to_index(self, x, y),
            coordinates_to_index(self, x + 1, y),
            coordinates_to_index(self, x - 1, y + 1),
            coordinates_to_index(self, x, y + 1),
            coordinates_to_index(self, x + 1, y + 1) >>
    IN  Cardinality({k \in 1..9 :
            /\ cell_indices[k].some
            /\ IsAliveAt(self, cell_indices[k].value)})

live_neighbor_count(self, index) ==
    LET xy == index_to_coordinates(self, index)
        x == xy[1]
        y == xy[2]
        cell_indices == <<
            coordinates_to_index(self, x - 1, y - 1),
            coordinates_to_index(self, x, y - 1),
            coordinates_to_index(self, x + 1, y - 1),
            coordinates_to_index(self, x - 1, y),
            coordinates_to_index(self, x + 1, y),
            coordinates_to_index(self, x - 1, y + 1),
            coordinates_to_index(self, x, y + 1),
            coordinates_to_index(self, x + 1, y + 1) >>
    IN  Cardinality({k \in 1..8 :
            /\ cell_indices[k].some
            /\ IsAliveAt(self, cell_indices[k].value)})

\* Variant: the new count is added to the cell's count (+=).
update_live_neighbor_counts_accumulating(self) ==
    LET neighbor_counts ==
            [index \in DOMAIN self.cells |-> live_neighbor_count(self, index)]
    IN  [self EXCEPT !.cells =
            [index \in DOMAIN self.cells |->
                [self.cells[index] EXCEPT
                    !.neighbor_count = @ + neighbor_counts[index]]]]

update_live_neighbor_counts(self) ==
    LET neighbor_counts ==
            [index \in DOMAIN self.cells |-> live_neighbor_count(self, index)]
    IN  [self EXCEPT !.cells =
            [index \in DOMAIN self.cells |->
                [self.cells[index] EXCEPT
                    !.neighbor_count = neighbor_counts[index]]]]

----------------------------------------------------------------------------
\* State transition

\* Variant: an Alive cell survives with exactly 2 neighbours only (>= 3).
step_cell_survive_on_two(cell) ==
    CASE cell.state = Alive ->
            IF cell.neighbor_count < 2 \/ cell.neighbor_count >= 3
            THEN [cell EXCEPT !.state = Dying(CYCLES_TO_DIE)]
            ELSE cell
      [] cell.state.tag = "Dying" ->
            IF cell.neighbor_count = 3
            THEN [cell EXCEPT !.state = Alive]
            ELSE IF cell.state.cycles_left = 0
                 THEN [cell EXCEPT !.state = Dead]
                 ELSE [cell EXCEPT
                          !.state = Dying(cell.state.cycles_left - 1)]
      [] cell.state = Dead ->
            IF cell.neighbor_count = 3
            THEN [cell EXCEPT !.state = Alive]
            ELSE cell

\* Variant: a Dying cell tests cycles_left == 0 before the neighbor count.
step_cell_decay_first(cell) ==
    CASE cell.state = Alive ->
            IF cell.neighbor_count < 2 \/ cell.neighbor_count > 3
            THEN [cell EXCEPT !.state = Dying(CYCLES_TO_DIE)]
            ELSE cell
      [] cell.state.tag = "Dying" ->
            IF cell.state.cycles_left = 0
            THEN [cell EXCEPT !.state = Dead]
            ELSE IF cell.neighbor_count = 3
                 THEN [cell EXCEPT !.state = Alive]
                 ELSE [cell EXCEPT
                          !.state = Dying(cell.state.cycles_left - 1)]
      [] cell.state = Dead ->
            IF cell.neighbor_count = 3
            THEN [cell EXCEPT !.state = Alive]
            ELSE cell

\* Variant: a Dead cell is born with 3 or more neighbours.
step_cell_birth_from_three(cell) ==
    CASE cell.state = Alive ->
            IF cell.neighbor_count < 2 \/ cell.neighbor_count > 3
            THEN [cell EXCEPT !.state = Dying(CYCLES_TO_DIE)]
            ELSE cell
      [] cell.state.tag = "Dying" ->
            IF cell.neighbor_count = 3
            THEN [cell EXCEPT !.state = Alive]
            ELSE IF cell.state.cycles_left = 0
                 THEN [cell EXCEPT !.state = Dead]
                 ELSE [cell EXCEPT
                          !.state = Dying(cell.state.cycles_left - 1)]
      [] cell.state = Dead ->
            IF cell.neighbor_count >= 3
            THEN [cell EXCEPT !.state = Alive]
            ELSE cell

\* Variant: an Alive cell that dies goes straight to Dead.
step_cell_no_decay(cell) ==
    CASE cell.state = Alive ->
            IF cell.neighbor_count < 2 \/ cell.neighbor_count > 3
            THEN [cell EXCEPT !.state = Dead]
            ELSE cell
      [] cell.state.tag = "Dying" ->
            IF cell.neighbor_count = 3
            THEN [cell EXCEPT !.state = Alive]
            ELSE IF cell.state.cycles_left = 0
                 THEN [cell EXCEPT !.state = Dead]
                 ELSE [cell EXCEPT
                          !.state = Dying(cell.state.cycles_left - 1)]
      [] cell.state = Dead ->
            IF cell.neighbor_count = 3
            THEN [cell EXCEPT !.state = Alive]
            ELSE cell

\* Variant: the cycles_left == 0 arm is left out, so a Dying(0) cell that is
\* not rescued has no next state (the match fails).
step_cell_partial(cell) ==
    CASE cell.state = Alive ->
            IF cell.neighbor_count < 2 \/ cell.neighbor_count > 3
            THEN [cell EXCEPT !.state = Dying(CYCLES_TO_DIE)]
            ELSE cell
      [] cell.state.tag = "Dying" ->
            IF cell.neighbor_count = 3
            THEN [cell EXCEPT !.state = Alive]
            ELSE IF cell.state.cycles_left = 0
                 THEN [cell EXCEPT !.state = [tag |-> "panic"]]
                 ELSE [cell EXCEPT
                          !.state = Dying(cell.state.cycles_left - 1)]
      [] cell.state = Dead ->
            IF cell.neighbor_count = 3
            THEN [cell EXCEPT !.state = Alive]
            ELSE cell

\* Variant: cycles_left is decremented without the test for 0 (the value
\* below 0 stands for the unsigned counter's underflow).
step_cell_decrement_always(cell) ==
    CASE cell.state = Alive ->
            IF cell.neighbor_count < 2 \/ cell.neighbor_count > 3
            THEN [cell EXCEPT !.state = Dying(CYCLES_TO_DIE)]
            ELSE cell
      [] cell.state.tag = "Dying" ->
            IF cell.neighbor_count = 3
            THEN [cell EXCEPT !.state = Alive]
            ELSE [cell EXCEPT !.state = Dying(cell.state.cycles_left - 1)]
      [] cell.state = Dead ->
            IF cell.neighbor_count = 3
            THEN [cell EXCEPT !.state = Alive]
            ELSE cell

\* Variant: the rescue test of a Dying cell is inverted (!= 3).
step_cell_rescue_inverted(cell) ==
    CASE cell.state = Alive ->
            IF cell.neighbor_count < 2 \/ cell.neighbor_count > 3
            THEN [cell EXCEPT !.state = Dying(CYCLES_TO_DIE)]
            ELSE cell
      [] cell.state.tag = "Dying" ->
            IF cell.neighbor_count # 3
            THEN [cell EXCEPT !.state = Alive]
            ELSE IF cell.state.cycles_left = 0
                 THEN [cell EXCEPT !.state = Dead]
                 ELSE [cell EXCEPT
                          !.state = Dying(cell.state.cycles_left - 1)]
      [] cell.state = Dead ->
            IF cell.neighbor_count = 3
            THEN [cell EXCEPT !.state = Alive]
            ELSE cell

\* Variant: a Dying cell is Dead one tick early (cycles_left <= 1).
step_cell_dead_at_one(cell) ==
    CASE cell.state = Alive ->
            IF cell.neighbor_count < 2 \/ cell.neighbor_count > 3
            THEN [cell EXCEPT !.state = Dying(CYCLES_TO_DIE)]
            ELSE cell
      [] cell.state.tag = "Dying" ->
            IF cell.neighbor_count = 3
            THEN [cell EXCEPT !.state = Alive]
            ELSE IF cell.state.cycles_left <= 1
                 THEN [cell EXCEPT !.state = Dead]
                 ELSE [cell EXCEPT
                          !.state = Dying(cell.state.cycles_left - 1)]
      [] cell.state = Dead ->
            IF cell.neighbor_count = 3
            THEN [cell EXCEPT !.state = Alive]
            ELSE cell

step_cell(cell) ==
    CASE cell.state = Alive ->
            IF cell.neighbor_count < 2 \/ cell.neighbor_count > 3
            THEN [cell EXCEPT !.state = Dying(CYCLES_TO_DIE)]
            ELSE cell
      [] cell.state.tag = "Dying" ->
            IF cell.neighbor_count = 3
            THEN [cell EXCEPT !.state = Alive]
            ELSE IF cell.state.cycles_left = 0
                 THEN [cell EXCEPT !.state = Dead]
                 ELSE [cell EXCEPT
                          !.state = Dying(cell.state.cycles_left - 1)]
      [] cell.state = Dead ->
            IF cell.neighbor_count = 3
            THEN [cell EXCEPT !.state = Alive]
            ELSE cell

\* Variant: a single pass that counts a cell's neighbours when it visits the
\* cell, on the board as the visit has changed it so far.
RECURSIVE step_fused_from(_, _)
step_fused_from(self, index) ==
    IF index \notin DOMAIN self.cells
    THEN self
    ELSE step_fused_from(
            [self EXCEPT !.cells[index] =
                step_cell([self.cells[index] EXCEPT
                    !.neighbor_count = live_neighbor_count(self, index)])],
            index + 1)

step_fused(self) == step_fused_from(self, 0)

\* Variant: step resets each count once it has used it.
step_clearing_counts(self) ==
    [self EXCEPT !.cells =
        [index \in DOMAIN self.cells |->
            [step_cell(self.cells[index]) EXCEPT !.neighbor_count = 0]]]

step(self) ==
    [self EXCEPT !.cells =
        [index \in DOMAIN self.cells |-> step_cell(self.cells[index])]]

----------------------------------------------------------------------------
\* Construction

\* The coordinate list of add_glider_gun.
GliderGun ==
    { <<25, 1>>, <<23, 2>>, <<25, 2>>, <<13, 3>>, <<14, 3>>, <<21, 3>>,
      <<22, 3>>, <<35, 3>>, <<36, 3>>, <<12, 4>>, <<16, 4>>, <<21, 4>>,
      <<22, 4>>, <<35, 4>>, <<36, 4>>, <<1, 5>>, <<2, 5>>, <<11, 5>>,
      <<17, 5>>, <<21, 5>>, <<22, 5>>, <<1, 6>>, <<2, 6>>, <<11, 6>>,
      <<15, 6>>, <<17, 6>>, <<18, 6>>, <<23, 6>>, <<25, 6>>, <<11, 7>>,
      <<17, 7>>, <<25, 7>>, <<12, 8>>, <<16, 8>>, <<13, 9>>, <<14, 9>> }

\* The index the seeding loop writes for (x, y): x + y * self.width.
seed_index(self, xy) == xy[1] + xy[2] * self.width

\* The loop's one failure: self.cells[i] panics when i is outside the Vec.
seeds_in_vec(self, seeds) ==
    \A xy \in seeds : seed_index(self, xy) < VecLen(self.cells)

\* The loop of add_glider_gun over a coordinate list, when no write panics.
\* The writes all store Cell::alive(), so their order does not show.
add_seeds(self, seeds) ==
    [self EXCEPT !.cells =
        [index \in DOMAIN self.cells |->
            IF \E xy \in seeds : seed_index(self, xy) = index
            THEN Cell_alive
            ELSE self.cells[index]]]

\* Variant: the counter starts at 1.
new_empty_from_one(w, h) ==
    [generation |-> 1,
     width |-> w,
     height |-> h,
     cells |-> [index \in 0 .. (w * h - 1) |-> Cell_dead]]

\* Variant: the Vec is allocated with width * width cells.
new_empty_square(w, h) ==
    [generation |-> 0,
     width |-> w,
     height |-> h,
     cells |-> [index \in 0 .. (w * w - 1) |-> Cell_dead]]

\* Board::new up to the call of add_glider_gun.
new_empty(w, h) ==
    [generation |-> 0,
     width |-> w,
     height |-> h,
     cells |-> [index \in 0 .. (w * h - 1) |-> Cell_dead]]

----------------------------------------------------------------------------
\* The run loop: main and draw

next_generation(g) == g + 1

\* The rendering loop of draw: one point per cell that is not Dead.
rendered(self) ==
    { <<index_to_coordinates(self, index)[1],
        index_to_coordinates(self, index)[2],
        self.cells[index].state>> :
        index \in {i \in DOMAIN self.cells : self.cells[i].state # Dead} }

\* let mut board = Board::new(WIDTH, HEIGHT)
BoardNew ==
    /\ pc = "new"
    /\ LET empty == new_empty(args.width, args.height)
       IN  IF seeds_in_vec(empty, args.seeds)
           THEN /\ board' = add_seeds(empty, args.seeds)
                /\ history' = <<add_seeds(empty, args.seeds)>>
                /\ pc' = "draw"
           ELSE /\ board' = board
                /\ history' = history
                /\ pc' = "panic"
    /\ UNCHANGED <<args, old, pre, completed, canvas, call>>

\* draw: board.generation += 1; canvas.clear()
DrawBegin ==
    /\ pc = "draw"
    /\ board.generation < MaxGen
    /\ board' = [board EXCEPT !.generation = next_generation(board.generation)]
    /\ old' = board
    /\ pre' = board
    /\ canvas' = {}
    /\ pc' = "count"
    /\ UNCHANGED <<args, completed, call, history>>

\* draw: board.update_live_neighbor_counts()
UpdateLiveNeighborCounts ==
    /\ pc = "count"
    /\ board' = update_live_neighbor_counts(board)
    /\ pre' = board
    /\ pc' = "step"
    /\ UNCHANGED <<args, old, completed, canvas, call, history>>

\* draw: board.step()
Step ==
    /\ pc = "step"
    /\ board' = step(board)
    /\ pre' = board
    /\ history' = Append(history, step(board))
    /\ pc' = "render"
    /\ UNCHANGED <<args, old, completed, canvas, call>>

\* draw: the loop over board.cells that draws them; draw returns
Render ==
    /\ pc = "render"
    /\ canvas' = rendered(board)
    /\ completed' = completed + 1
    /\ pc' = "poll"
    /\ UNCHANGED <<args, board, old, pre, call, history>>

\* Variant: the quit event is also examined inside draw, between the two
\* passes of the tick.
PollQuitMidTick ==
    /\ pc \in {"poll", "step"}
    /\ pc' = "done"
    /\ UNCHANGED <<args, board, old, pre, completed, canvas, call, history>>

\* main: a Quit or Escape event is in the queue: break 'running
PollQuit ==
    /\ pc = "poll"
    /\ pc' = "done"
    /\ UNCHANGED <<args, board, old, pre, completed, canvas, call, history>>

\* main: no quit event; canvas.present(), sleep, and the loop starts over
Present ==
    /\ pc = "poll"
    /\ pc' = "draw"
    /\ UNCHANGED <<args, board, old, pre, completed, canvas, call, history>>

----------------------------------------------------------------------------
\* Specifications

Grid(w, h) == (0 .. (w - 1)) \X (0 .. (h - 1))

\* The 2x2 blocks of a w x h grid.
Blocks(w, h) ==
    { { <<x, y>>, <<x + 1, y>>, <<x, y + 1>>, <<x + 1, y + 1>> } :
        <<x, y>> \in (0 .. (w - 2)) \X (0 .. (h - 2)) }

\* The seed lists a board of w x h is explored with.
SeedLists(w, h) ==
    IF w * h <= MaxCells THEN SUBSET Grid(w, h) ELSE Blocks(w, h)

\* The run loop, from a board as Board::new leaves it for a seed list
\* inside the grid.
Init ==
    /\ pc = "draw"
    /\ \E w \in 0 .. MaxSide, h \in 0 .. MaxSide :
         \E seeds \in SeedLists(w, h) :
            /\ args = [width |-> w, height |-> h, seeds |-> seeds]
            /\ board = add_seeds(new_empty(w, h), seeds)
    /\ old = board
    /\ pre = board
    /\ completed = 0
    /\ canvas = {}
    /\ call = NoCall
    /\ history = <<board>>

Next ==
    \/ DrawBegin
    \/ UpdateLiveNeighborCounts
    \/ Step
    \/ Render
    \/ PollQuit
    \/ Present

Spec == Init /\ [][Next]_vars

\* Board::new(width, height) as the source has it, with the glider gun.
InitNew ==
    /\ pc = "new"
    /\ \E w \in 0 .. MaxNewWidth, h \in 0 .. MaxNewHeight :
         args = [width |-> w, height |-> h, seeds |-> GliderGun]
    /\ board = NoBoard
    /\ old = NoBoard
    /\ pre = NoBoard
    /\ completed = 0
    /\ canvas = {}
    /\ call = NoCall
    /\ history = <<>>

NextNew == BoardNew

SpecNew == InitNew /\ [][NextNew]_vars

\* The run loop from any board value: every mix of Alive and Dead cells, and
\* at most one cell Dying with any counter 0 .. CYCLES_TO_DIE, as a board is
\* some ticks into a run.
InitAny ==
    /\ pc = "draw"
    /\ \E w \in 0 .. MaxSide, h \in 0 .. MaxSide :
         /\ w * h <= MaxAnyCells
         /\ \E seeds \in SUBSET Grid(w, h) :
              /\ args = [width |-> w, height |-> h, seeds |-> seeds]
              /\ \/ board = add_seeds(new_empty(w, h), seeds)
                 \/ \E d \in 0 .. (w * h - 1), n \in 0 .. CYCLES_TO_DIE :
                       board = [add_seeds(new_empty(w, h), seeds) EXCEPT
                                   !.cells[d].state = Dying(n)]
    /\ old = board
    /\ pre = board
    /\ completed = 0
    /\ canvas = {}
    /\ call = NoCall
    /\ history = <<board>>

SpecAny == InitAny /\ [][Next]_vars

\* The coordinate functions as pure functions of a board's width and height:
\* every board shape, every (x, y) of CoordRange and every valid index.
CoordRange == (0 - 2) .. (MaxSide + 2)

InitCoords ==
    /\ pc = "draw"
    /\ \E w \in 0 .. MaxSide, h \in 0 .. MaxSide :
         /\ args = [width |-> w, height |-> h, seeds |-> {}]
         /\ board = add_seeds(new_empty(w, h), {})
    /\ old = board
    /\ pre = board
    /\ completed = 0
    /\ canvas = {}
    /\ call = NoCall
    /\ history = <<board>>

CallCoordinatesToIndex ==
    /\ \E x \in CoordRange, y \in CoordRange :
         call' = [fn |-> "coordinates_to_index", x |-> x, y |-> y,
                  result |-> coordinates_to_index(board, x, y)]
    /\ UNCHANGED <<pc, args, board, old, pre, completed, canvas, history>>

CallIndexToCoordinates ==
    /\ \E index \in DOMAIN board.cells :
         call' = [fn |-> "index_to_coordinates", index |-> index,
                  result |-> index_to_coordinates(board, index)]
    /\ UNCHANGED <<pc, args, board, old, pre, completed, canvas, history>>

NextCoords == CallCoordinatesToIndex \/ CallIndexToCoordinates

SpecCoords == InitCoords /\ [][NextCoords]_vars

----------------------------------------------------------------------------
\* Reference definitions for the properties below

States(self) == [index \in DOMAIN self.cells |-> self.cells[index].state]

Offsets == ((-1 .. 1) \X (-1 .. 1)) \ {<<0, 0>>}

\* The in-grid Moore neighbours of cell i, as indices.
MooreNeighbours(self, i) ==
    LET x == i % self.width
        y == i \div self.width
    IN  { (y + d[2]) * self.width + (x + d[1]) :
            d \in { e \in Offsets :
                      /\ x + e[1] \in 0 .. (self.width - 1)
                      /\ y + e[2] \in 0 .. (self.height - 1) } }

\* How many in-grid Moore neighbours of cell i are Alive in self.
MooreAlive(self, i) ==
    Cardinality({ j \in MooreNeighbours(self, i) : self.cells[j].state = Alive })

AliveCells(self) == { i \in DOMAIN self.cells : self.cells[i].state = Alive }

IsInterior(self, i) ==
    /\ (i % self.width) \in 1 .. (self.width - 2)
    /\ (i \div self.width) \in 1 .. (self.height - 2)

\* The transition table of one cell: its state and its count of Alive
\* neighbours give its next state.
Rule(s, n) ==
    IF s = Alive
    THEN IF n \in {2, 3} THEN Alive ELSE Dying(CYCLES_TO_DIE)
    ELSE IF s = Dead
         THEN IF n = 3 THEN Alive ELSE Dead
         ELSE IF n = 3
              THEN Alive
              ELSE IF s.cycles_left > 0 THEN Dying(s.cycles_left - 1) ELSE Dead

\* A double-buffered tick: every new state from the frozen board self.
DoubleBuffered(self) ==
    [i \in DOMAIN self.cells |-> Rule(self.cells[i].state, MooreAlive(self, i))]

\* The write pass visiting the cells from the last index down to the first.
RECURSIVE StepDownFrom(_, _)
StepDownFrom(self, index) ==
    IF index \notin DOMAIN self.cells
    THEN self
    ELSE StepDownFrom(
            [self EXCEPT !.cells[index] = step_cell(self.cells[index])],
            index - 1)

----------------------------------------------------------------------------
\* C1: after update_live_neighbor_counts every cell's neighbor_count is the
\* number of its in-grid Moore neighbours that held Alive before the call:
\* Dying and Dead neighbours, the cell itself and off-grid positions count 0,
\* with no wrapping.  A single Alive cell in the interior raises the count of
\* exactly 8 cells, one at corner (0, 0) that of at most 3.
NeighborCountsCorrect ==
    pc = "step" =>
        /\ \A i \in DOMAIN board.cells :
              board.cells[i].neighbor_count = MooreAlive(pre, i)
        /\ \A a \in DOMAIN pre.cells :
              AliveCells(pre) = {a} =>
                LET raised == { i \in DOMAIN board.cells :
                                  board.cells[i].neighbor_count > 0 }
                IN  /\ a \notin raised
                    /\ raised = MooreNeighbours(pre, a)
                    /\ IsInterior(pre, a) => Cardinality(raised) = 8
                    /\ a = 0 => Cardinality(raised) <= 3

\* A board with a cell of 4 or more Alive neighbours and a cell on the edge
\* of the grid that has an Alive and a Dying neighbour.
NeighborCountsWitness ==
    /\ pc = "step"
    /\ \E i \in DOMAIN board.cells : board.cells[i].neighbor_count >= 4
    /\ \E i \in DOMAIN board.cells :
          /\ ~IsInterior(board, i)
          /\ board.cells[i].neighbor_count > 0
          /\ \E j \in MooreNeighbours(board, i) :
                board.cells[j].state.tag = "Dying"

\* C2: one tick is a synchronous update: after update_live_neighbor_counts
\* and step every cell's state is the transition rule applied to its
\* pre-tick state and its pre-tick count of Alive neighbours, as a
\* double-buffered tick gives it, whatever the order of the visit.
TickIsSynchronous ==
    pc = "render" =>
        /\ States(board) = DoubleBuffered(old)
        /\ States(board) =
              States(StepDownFrom(update_live_neighbor_counts(old),
                                  VecLen(old.cells) - 1))

\* A tick in which a cell's rule and a neighbour's rule both changed state.
TickWitness ==
    /\ pc = "render"
    /\ \E i \in DOMAIN board.cells : \E j \in MooreNeighbours(board, i) :
          /\ old.cells[i].state = Alive /\ board.cells[i].state # Alive
          /\ old.cells[j].state = Dead /\ board.cells[j].state = Alive

\* C3: an Alive cell stays Alive through step with 2 or 3 neighbours and
\* becomes Dying(CYCLES_TO_DIE) with 0, 1, or 4 or more.
SurvivalRule ==
    pc = "render" =>
        \A i \in DOMAIN pre.cells :
            pre.cells[i].state = Alive =>
                LET n == pre.cells[i].neighbor_count
                IN  /\ n \in {2, 3} => board.cells[i].state = Alive
                    /\ (n \in {0, 1} \/ n >= 4) =>
                          board.cells[i].state = Dying(CYCLES_TO_DIE)

SurvivalWitness ==
    /\ pc = "render"
    /\ \E i \in DOMAIN pre.cells :
          /\ pre.cells[i].state = Alive /\ pre.cells[i].neighbor_count >= 4
          /\ board.cells[i].state = Dying(CYCLES_TO_DIE)
    /\ \E i \in DOMAIN pre.cells :
          /\ pre.cells[i].state = Alive /\ pre.cells[i].neighbor_count <= 1
          /\ board.cells[i].state = Dying(CYCLES_TO_DIE)
    /\ \E i \in DOMAIN pre.cells :
          /\ pre.cells[i].state = Alive /\ pre.cells[i].neighbor_count = 2
          /\ board.cells[i].state = Alive
    /\ \E i \in DOMAIN pre.cells :
          /\ pre.cells[i].state = Alive /\ pre.cells[i].neighbor_count = 3
          /\ board.cells[i].state = Alive

\* C4: a Dying(n) cell becomes Alive through step with exactly 3 neighbours,
\* whatever n, n = 0 included; otherwise Dying(n-1) when n > 0 and Dead when
\* n = 0.
DecayAndRescue ==
    pc = "render" =>
        \A i \in DOMAIN pre.cells :
            pre.cells[i].state.tag = "Dying" =>
                LET n == pre.cells[i].state.cycles_left
                IN  IF pre.cells[i].neighbor_count = 3
                    THEN board.cells[i].state = Alive
                    ELSE IF n > 0
                         THEN board.cells[i].state = Dying(n - 1)
                         ELSE board.cells[i].state = Dead

\* A Dying(0) cell rescued by 3 neighbours.
RescueWitness ==
    /\ pc = "render"
    /\ \E i \in DOMAIN pre.cells :
          /\ pre.cells[i].state = Dying(0)
          /\ pre.cells[i].neighbor_count = 3
          /\ board.cells[i].state = Alive

\* C5: a Dead cell becomes Alive through step with exactly 3 neighbours and
\* stays Dead with any other count; it never becomes Dying.
BirthRule ==
    pc = "render" =>
        \A i \in DOMAIN pre.cells :
            pre.cells[i].state = Dead =>
                /\ board.cells[i].state.tag # "Dying"
                /\ IF pre.cells[i].neighbor_count = 3
                   THEN board.cells[i].state = Alive
                   ELSE board.cells[i].state = Dead

BirthWitness ==
    /\ pc = "render"
    /\ \E i \in DOMAIN pre.cells :
          /\ pre.cells[i].state = Dead /\ pre.cells[i].neighbor_count = 3
          /\ board.cells[i].state = Alive
    /\ \E i \in DOMAIN pre.cells :
          /\ pre.cells[i].state = Dead /\ pre.cells[i].neighbor_count = 2
          /\ board.cells[i].state = Dead
    /\ \E i \in DOMAIN pre.cells :
          /\ pre.cells[i].state = Dead /\ pre.cells[i].neighbor_count >= 4
          /\ board.cells[i].state = Dead

\* C6: Board::new with a seed (x, y) of x >= width or y >= height fails at
\* construction: it never returns a board.
SeedOutsideGridFails ==
    (\E xy \in args.seeds : xy[1] >= args.width \/ xy[2] >= args.height) =>
        pc \in {"new", "panic"}

\* C7: generation is 0 on a new Board, is the number of calls of draw after
\* each of them, goes up by exactly 1 per call and never goes down.
GenerationCounter ==
    /\ [](pc \in {"draw", "poll", "done"} => board.generation = completed)
    /\ [](pc \in {"count", "step", "render"} =>
            board.generation = completed + 1)
    /\ [][/\ board'.generation \in {board.generation, board.generation + 1}
          /\ completed' # completed => board'.generation = completed + 1]_vars

GenerationWitness ==
    /\ pc = "poll"
    /\ completed >= 3
    /\ board.generation = completed

\* The board Board::new builds from the seed list: the seeds Alive, every
\* other cell Dead.
SeededStates ==
    [i \in 0 .. (args.width * args.height - 1) |->
        IF \E xy \in args.seeds : xy[2] * args.width + xy[1] = i
        THEN Alive
        ELSE Dead]

\* C8: a board whose only Alive cells are a 2x2 block, all others Dead, has
\* after every tick the block's cells Alive and every other cell Dead,
\* wherever the block lies.
BlockIsStill ==
    (/\ args.seeds \in Blocks(args.width, args.height)
     /\ pc \in {"render", "poll", "draw", "done"}) =>
        States(board) = SeededStates

\* A block off every edge of the grid, three ticks on.
BlockWitness ==
    /\ args.seeds \in Blocks(args.width, args.height)
    /\ \A xy \in args.seeds :
          /\ xy[1] \in 1 .. (args.width - 2)
          /\ xy[2] \in 1 .. (args.height - 2)
    /\ pc = "poll"
    /\ completed >= 3
    /\ States(board) = SeededStates

\* C10: coordinates_to_index(x, y) is y * width + x exactly on the grid and
\* None everywhere else, negative coordinates included; index_to_coordinates
\* (i) is (i mod width, i div width); and coordinates_to_index undoes
\* index_to_coordinates on every valid index.
CoordinateMapping ==
    /\ call.fn = "coordinates_to_index" =>
          IF /\ 0 <= call.x /\ call.x < board.width
             /\ 0 <= call.y /\ call.y < board.height
          THEN call.result = Some(call.y * board.width + call.x)
          ELSE call.result = None
    /\ call.fn = "index_to_coordinates" =>
          /\ call.result = <<call.index % board.width,
                             call.index \div board.width>>
          /\ coordinates_to_index(board, call.result[1], call.result[2])
                = Some(call.index)

\* The last cell of a grid of more than one row and column goes to its
\* coordinates and back.
CoordinateWitness ==
    /\ call.fn = "index_to_coordinates"
    /\ board.width > 1 /\ board.height > 1
    /\ call.index = board.width * board.height - 1
    /\ call.result = <<board.width - 1, board.height - 1>>
    /\ coordinates_to_index(board, call.result[1], call.result[2])
          = Some(call.index)

\* C11: in every state after construction, and after any number of ticks,
\* the number of cells is width * height, and width and height are the
\* values Board::new was given.
BoardShape ==
    pc \notin {"new", "panic"} =>
        /\ VecLen(board.cells) = board.width * board.height
        /\ DOMAIN board.cells = 0 .. (board.width * board.height - 1)
        /\ board.width = args.width
        /\ board.height = args.height

\* A board that is not square, three ticks on.
BoardShapeWitness ==
    /\ pc = "poll"
    /\ completed >= 3
    /\ board.width # board.height
    /\ VecLen(board.cells) = args.width * args.height
    /\ VecLen(board.cells) > 1

\* The edges a cell's state may take across one tick.
AllowedEdge(s, t) ==
    \/ s = Dead /\ t \in {Dead, Alive}
    \/ s = Alive /\ t \in {Alive, Dying(CYCLES_TO_DIE)}
    \/ /\ s.tag = "Dying"
       /\ \/ t = Alive
          \/ s.cycles_left > 0 /\ t = Dying(s.cycles_left - 1)
          \/ s.cycles_left = 0 /\ t = Dead

\* C12: across a tick a cell's state moves only along Dead -> Alive,
\* Alive -> Dying(CYCLES_TO_DIE), Dying(n) -> Dying(n-1) for n > 0,
\* Dying(0) -> Dead, Dying(n) -> Alive, or stays Alive or Dead: never
\* Alive -> Dead, Dead -> Dying, Dying(n > 0) -> Dead, nor Dying(n) ->
\* Dying(m) with m # n - 1.
TransitionGraph ==
    pc = "render" =>
        \A i \in DOMAIN old.cells :
            LET s == old.cells[i].state
                t == board.cells[i].state
            IN  /\ AllowedEdge(s, t)
                /\ ~(s = Alive /\ t = Dead)
                /\ ~(s = Dead /\ t.tag = "Dying")
                /\ ~(s.tag = "Dying" /\ s.cycles_left > 0 /\ t = Dead)
                /\ (s.tag = "Dying" /\ t.tag = "Dying") =>
                      t.cycles_left = s.cycles_left - 1

\* A tick in which one cell goes Alive -> Dying(CYCLES_TO_DIE) and another
\* Dying(0) -> Dead.
TransitionWitness ==
    /\ pc = "render"
    /\ \E i \in DOMAIN old.cells :
          /\ old.cells[i].state = Alive
          /\ board.cells[i].state = Dying(CYCLES_TO_DIE)
    /\ \E i \in DOMAIN old.cells :
          /\ old.cells[i].state = Dying(0)
          /\ board.cells[i].state = Dead

CellStates == {Alive, Dead} \cup { Dying(n) : n \in 0 .. CYCLES_TO_DIE }

\* The run has not been stopped: main has not left its loop, and the model's
\* bound on the calls of draw is not yet met.
Running == pc # "done" /\ ~(pc = "draw" /\ board.generation >= MaxGen)

\* C13: step gives a next state, one of the cell states, for every cell
\* state and every neighbor_count in 0 .. 8; no lookup of the neighbour scan
\* leaves the Vec and no division is by zero; and in every reachable state
\* of the running loop a further step of the tick is enabled.
TotalAndLive ==
    /\ \A s \in CellStates, n \in 0 .. 8 :
          step_cell([state |-> s, neighbor_count |-> n]).state \in CellStates
    /\ \A index \in DOMAIN board.cells :
          /\ board.width # 0
          /\ \A d \in Offsets :
                LET xy == index_to_coordinates(board, index)
                    r == coordinates_to_index(board, xy[1] + d[1],
                                              xy[2] + d[2])
                IN  r.some => r.value \in DOMAIN board.cells
    /\ Running => ENABLED Next

\* A tick about to run step on a board that holds an Alive cell, a Dead
\* cell and a Dying(0) cell.
TotalWitness ==
    /\ pc = "step"
    /\ \E i, j, k \in DOMAIN board.cells :
          /\ board.cells[i].state = Alive
          /\ board.cells[j].state = Dead
          /\ board.cells[k].state = Dying(0)
    /\ ENABLED Next

\* A board of the run's width and height with the given cell states.
AsBoard(states) ==
    [width |-> args.width,
     height |-> args.height,
     cells |-> [i \in DOMAIN states |-> [state |-> states[i]]]]

\* The cell states k whole ticks after `states`, each tick double-buffered.
RECURSIVE TicksOf(_, _)
TicksOf(states, k) ==
    IF k = 0 THEN states ELSE TicksOf(DoubleBuffered(AsBoard(states)), k - 1)

\* C14: whenever the loop renders or has stopped on the quit signal, the
\* cell states are those of a whole number of completed ticks from the board
\* as built, generation is that number, the counts are those the last of
\* these ticks used, and what was drawn is that board's cells.
TickAtomic ==
    pc \in {"render", "done"} =>
        LET k == board.generation
            before == TicksOf(SeededStates, k - 1)
            after == DoubleBuffered(AsBoard(before))
        IN  /\ k = Len(history) - 1
            /\ k >= 1
            /\ States(board) = after
            /\ \A i \in DOMAIN board.cells :
                  board.cells[i].neighbor_count = MooreAlive(AsBoard(before), i)
            /\ pc = "done" =>
                  canvas = { <<i % args.width, i \div args.width, after[i]>> :
                               i \in { j \in DOMAIN after : after[j] # Dead } }

\* The loop stopped after three or more ticks on a board that the ticks
\* have changed, with cells drawn.
TickAtomicWitness ==
    /\ pc = "done"
    /\ completed >= 3
    /\ canvas # {}
    /\ States(board) # SeededStates
    /\ States(board) # States(old)

\* C15: every cell's neighbor_count is within 0 .. 8 in every reachable
\* state, and 0 on a board just built.
NeighborCountBound ==
    /\ \A i \in DOMAIN board.cells : board.cells[i].neighbor_count \in 0 .. 8
    /\ (pc = "draw" /\ completed = 0) =>
          \A i \in DOMAIN board.cells : board.cells[i].neighbor_count = 0

\* A cell with all 8 neighbours Alive, counted in a second or later tick.
NeighborCountBoundWitness ==
    /\ pc = "step"
    /\ \E i \in DOMAIN board.cells : board.cells[i].neighbor_count = 8
    /\ \E i \in DOMAIN pre.cells : pre.cells[i].neighbor_count > 0

\* C16: every Dying(n) cell of a state reached from a built board has
\* 0 <= n <= CYCLES_TO_DIE, and step decrements the counter only where it is
\* above 0.
DyingCounterBound ==
    /\ \A i \in DOMAIN board.cells :
          board.cells[i].state.tag = "Dying" =>
              board.cells[i].state.cycles_left \in 0 .. CYCLES_TO_DIE
    /\ pc = "render" =>
          \A i \in DOMAIN pre.cells :
              (pre.cells[i].state.tag = "Dying"
                  /\ board.cells[i].state.tag = "Dying") =>
                  /\ pre.cells[i].state.cycles_left > 0
                  /\ board.cells[i].state.cycles_left
                        = pre.cells[i].state.cycles_left - 1

\* A tick that took a Dying(0) cell to Dead and decremented another cell.
DyingCounterWitness ==
    /\ pc = "render"
    /\ \E i \in DOMAIN pre.cells :
          /\ pre.cells[i].state = Dying(0)
          /\ pre.cells[i].neighbor_count # 3
          /\ board.cells[i].state = Dead
    /\ \E i \in DOMAIN pre.cells :
          /\ pre.cells[i].state.tag = "Dying"
          /\ board.cells[i].state.tag = "Dying"

\* A cell entered Dying(CYCLES_TO_DIE) in the tick that produced history[t].
BecameDying(t, i) ==
    /\ history[t].cells[i].state = Dying(CYCLES_TO_DIE)
    /\ history[t - 1].cells[i].state # Dying(CYCLES_TO_DIE)

\* The cell's count was not 3 in any of the k ticks after history[t].
Unrescued(t, i, k) ==
    \A j \in 1 .. k : history[t + j].cells[i].neighbor_count # 3

\* C17: a cell that becomes Dying(CYCLES_TO_DIE) in tick t and whose count
\* is not 3 in the ticks that follow is Dying(CYCLES_TO_DIE - k) after tick
\* t + k for every k in 0 .. CYCLES_TO_DIE and Dead after tick
\* t + CYCLES_TO_DIE + 1.
DecayLength ==
    pc = "render" =>
        \A t \in 2 .. Len(history), i \in DOMAIN board.cells :
            BecameDying(t, i) =>
                \A k \in 0 .. (CYCLES_TO_DIE + 1) :
                    (t + k <= Len(history) /\ Unrescued(t, i, k)) =>
                        history[t + k].cells[i].state =
                            IF k <= CYCLES_TO_DIE
                            THEN Dying(CYCLES_TO_DIE - k)
                            ELSE Dead

\* A cell that went the whole way from Dying(CYCLES_TO_DIE) to Dead while
\* another cell of the board was Alive.
DecayLengthWitness ==
    /\ pc = "render"
    /\ \E t \in 2 .. Len(history), i \in DOMAIN board.cells :
          /\ BecameDying(t, i)
          /\ t + CYCLES_TO_DIE + 1 = Len(history)
          /\ Unrescued(t, i, CYCLES_TO_DIE + 1)
          /\ board.cells[i].state = Dead
          /\ history[t + CYCLES_TO_DIE].cells[i].state = Dying(0)
          /\ AliveCells(history[t + 1]) # {}

AllDead(self) == \A i \in DOMAIN self.cells : self.cells[i].state = Dead

\* C18: once no cell is Alive, no cell is Alive after any later tick, every
\* cell is Dead from CYCLES_TO_DIE + 1 ticks on, and a tick on a board of
\* Dead cells changes no cell state.
ExtinctionAbsorbing ==
    pc = "render" =>
        \A t \in 1 .. Len(history) :
            AliveCells(history[t]) = {} =>
                \A u \in t .. Len(history) :
                    /\ AliveCells(history[u]) = {}
                    /\ u >= t + CYCLES_TO_DIE + 1 => AllDead(history[u])
                    /\ (AllDead(history[u]) /\ u < Len(history)) =>
                          States(history[u + 1]) = States(history[u])

\* A board that lost its last Alive cell with a Dying(CYCLES_TO_DIE) cell
\* on it, CYCLES_TO_DIE + 2 ticks later: all Dead, and the last tick changed
\* nothing.
ExtinctionWitness ==
    /\ pc = "render"
    /\ \E t \in 2 .. Len(history) :
          /\ AliveCells(history[t - 1]) # {}
          /\ AliveCells(history[t]) = {}
          /\ \E i \in DOMAIN board.cells :
                history[t].cells[i].state = Dying(CYCLES_TO_DIE)
          /\ Len(history) >= t + CYCLES_TO_DIE + 2
          /\ ~AllDead(history[t + CYCLES_TO_DIE])
          /\ AllDead(history[t + CYCLES_TO_DIE + 1])
          /\ AllDead(board)

\* C19: update_live_neighbor_counts leaves every cell's state, generation,
\* width, height and the number of cells as they were; step leaves every
\* neighbor_count, generation, width, height and the number of cells as
\* they were.
PassFrames ==
    /\ pc = "step" =>
          /\ States(board) = States(pre)
          /\ board.generation = pre.generation
          /\ board.width = pre.width
          /\ board.height = pre.height
          /\ DOMAIN board.cells = DOMAIN pre.cells
    /\ pc = "render" =>
          /\ \A i \in DOMAIN pre.cells :
                board.cells[i].neighbor_count = pre.cells[i].neighbor_count
          /\ board.generation = pre.generation
          /\ board.width = pre.width
          /\ board.height = pre.height
          /\ DOMAIN board.cells = DOMAIN pre.cells

\* A step that changed a cell's state on a board with counts above 0.
PassFramesWitness ==
    /\ pc = "render"
    /\ States(board) # States(pre)
    /\ \E i \in DOMAIN board.cells : board.cells[i].neighbor_count > 0
    /\ \E i \in DOMAIN board.cells :
          /\ board.cells[i].state # pre.cells[i].state
          /\ board.cells[i].neighbor_count > 0

====
